---- MODULE Spec2Model ----
(***************************************************************************)
(* One invocation of a Luma node (five generation nodes, two list nodes):  *)
(* validate_before_node_run followed by _process_async, stepped at every   *)
(* call to a collaborator (secrets store, public-URL parameter component,  *)
(* static storage, HTTP fetch, remote generation API).                     *)
(***************************************************************************)
EXTENDS Integers, Sequences, FiniteSets, TLC

VARIABLES
    node,        \* which node class this invocation belongs to
    params,      \* parameter values: api_key, prompt, reference_type, media
    pc,          \* position inside validate_before_node_run / _process_async
    validation,  \* value returned by validate_before_node_run
    status,      \* the "status" parameter: lines appended, in order
    output,      \* the output parameter (image / output_image / video / ...)
    storage,     \* request-scoped objects currently held in public storage
    tracked,     \* per public-URL parameter: the object it uploaded ("" if none)
    generation,  \* the job object last returned by the remote API
    attempt,     \* local "attempt"
    completed,   \* local "completed"
    urls,        \* the URL each resolver call returned ("" if none)
    outcomes,    \* the terminal branches the polling code has taken
    seen,        \* what the status fetches have observed so far
    calls,       \* number of calls made to each collaborator
    error,       \* exception propagating out of _process_async (chain, newest first)
    requests,    \* the payloads passed to the create / reframe / modify call
    clock,       \* time.time() * 1000, as seen by concurrent invocations
    saved,       \* the save_static_file calls of concurrent invocations, in order
    flows,       \* concurrent invocations: node class and position of each
    response,    \* the body the list endpoint returned ("" before the call)
    hidden,      \* the parameters the editor hides
    edits        \* the values set on the node since construction, in order

(* The static-file side of concurrent invocations. *)
static == <<clock, saved, flows>>

(* The editor side of the node: what show / hide_parameter_by_name and the
   value sets have left. *)
editing == <<hidden, edits>>

vars == <<node, params, pc, validation, status, output, storage, tracked,
          generation, attempt, completed, urls, outcomes, seen, calls, error,
          requests, clock, saved, flows, response, hidden, edits>>

-----------------------------------------------------------------------------
(* Node classes *)

GenNodes == {"image_generation", "image_reframe", "video_generation",
             "video_modify", "video_reframe"}

ListNodes == {"list_camera_motions", "list_concepts"}

Nodes == GenNodes \cup ListNodes

(* Bound of the model: number of leading polls that may observe "queued". *)
MaxQueued == 2

(* max_attempts of each polling loop *)
MaxAttemptsImageGeneration == 120
MaxAttemptsImageReframe == 120
MaxAttemptsVideoGeneration == 200
MaxAttemptsVideoModify == 180
MaxAttemptsVideoReframe == 180

max_attempts(n) ==
    CASE n = "image_generation" -> MaxAttemptsImageGeneration
      [] n = "image_reframe"    -> MaxAttemptsImageReframe
      [] n = "video_generation" -> MaxAttemptsVideoGeneration
      [] n = "video_modify"     -> MaxAttemptsVideoModify
      [] n = "video_reframe"    -> MaxAttemptsVideoReframe
      [] OTHER                  -> 0

(* The PublicArtifactUrlParameter components a node holds, in the order its
   finally block cleans them up. *)
PublicParams(n) ==
    CASE n = "image_reframe"    -> <<"input_image">>
      [] n = "video_generation" -> <<"start_frame", "end_frame">>
      [] n = "video_modify"     -> <<"input_video", "first_frame">>
      [] n = "video_reframe"    -> <<"input_video">>
      [] OTHER                  -> <<>>

PublicParamSet(n) == {PublicParams(n)[i] : i \in 1..Len(PublicParams(n))}

(* The media parameters a node reads. *)
MediaParams(n) ==
    IF n = "image_generation" THEN {"reference_image"} ELSE PublicParamSet(n)

(* The required media input of reframe / modify. *)
InputParam(n) == IF n = "image_reframe" THEN "input_image" ELSE "input_video"

(* The first and second optional frame of video generation / video modify. *)
Frame0Param(n) == IF n = "video_generation" THEN "start_frame" ELSE "first_frame"
Frame1Param(n) == "end_frame"

(* Nodes whose _process_async requires a prompt. *)
PromptNodes == {"image_generation", "video_generation", "video_modify"}

(* Nodes whose _process_async requires a media input. *)
InputNodes == {"image_reframe", "video_modify", "video_reframe"}

-----------------------------------------------------------------------------
(* Values *)

(* A media parameter holds nothing, inline bytes (ImageArtifact), a URL
   artifact with a public URL, or a URL artifact with a localhost URL. *)
RefValues == {"None", "Inline", "Public", "Local"}

(* The same, with the other URLs the resolver tells apart: a 127.0.0.1 URL
   and a URL of a public host with "localhost" in its path; and with a
   value that is neither an ImageArtifact nor an ImageUrlArtifact. *)
WideRefValues == RefValues \cup {"Loopback", "LocalPath", "Other"}

ReferenceTypes == {"none", "image_reference", "style_reference",
                   "character_reference", "modify_image"}

PublicUrl == "https://cdn.example/media"
LocalUrl == "http://localhost:8124/static/media"
LoopbackUrl == "http://127.0.0.1:8124/static/media"
LocalPathUrl == "https://cdn.example/localhost/media"

(* isinstance(image_artifact, ...) *)
ArtifactType(image) ==
    CASE image = "None"   -> "NoneType"
      [] image = "Inline" -> "ImageArtifact"
      [] image = "Other"  -> "object"
      [] OTHER            -> "ImageUrlArtifact"

(* image_artifact.value of an ImageUrlArtifact *)
ArtifactUrl(image) ==
    CASE image = "Public"    -> PublicUrl
      [] image = "Local"     -> LocalUrl
      [] image = "Loopback"  -> LoopbackUrl
      [] image = "LocalPath" -> LocalPathUrl
      [] OTHER               -> ""

(* "'localhost' in url or '127.0.0.1' in url": a substring test on the whole
   URL, not on its host. *)
ContainsLocalhost(url) == url \in {LocalUrl, LoopbackUrl, LocalPathUrl}
AssetUrl == "https://luma.example/asset"
RefObject == "static/luma_ref.jpg"
ResultObject == "static/luma_result"

(* The value the output parameter holds before the invocation. *)
PreviousOutput == "previous value"

(* The object a public-URL parameter creates when it uploads. *)
CloudObject(p) ==
    CASE p = "input_image" -> "cloud/input_image"
      [] p = "input_video" -> "cloud/input_video"
      [] p = "start_frame" -> "cloud/start_frame"
      [] p = "end_frame"   -> "cloud/end_frame"
      [] p = "first_frame" -> "cloud/first_frame"

FailureReasons == {"content moderated", "internal error"}

NonTerminal == {"queued", "dreaming"}

NoGeneration == [id |-> "", state |-> "", failure_reason |-> "", asset |-> ""]

(* History of the status fetches: the states observed, the first terminal
   state observed, the current and the longest run of consecutive
   non-terminal observations. *)
NothingSeen == [states |-> {}, first_terminal |-> "", run |-> 0, longest |-> 0]

Observe(h, s) ==
    LET run == IF s \in NonTerminal THEN h.run + 1 ELSE 0
    IN  [states |-> h.states \cup {s},
         first_terminal |-> IF h.first_terminal = "" /\ s \notin NonTerminal
                            THEN s ELSE h.first_terminal,
         run |-> run,
         longest |-> IF run > h.longest THEN run ELSE h.longest]

NoCalls == [secret |-> 0, upload |-> 0, fetch |-> 0, submit |-> 0, sleep |-> 0,
            poll |-> 0, download |-> 0, downloaded |-> 0, save |-> 0, publish |-> 0,
            delete |-> 0, list |-> 0]

Count(c, what) == [c EXCEPT ![what] = @ + 1]

Line(kind, n, arg) == [kind |-> kind, n |-> n, arg |-> arg]

Exc(kind, msg) == [kind |-> kind, msg |-> msg]

(* Python truthiness of a string parameter. *)
Truthy(s) == s /= ""

(* A prompt is a string of characters: a sequence over Chars. *)
Chars == {" ", "a"}

Whitespace == {" "}

(* "if not prompt": truthiness of the prompt string. *)
TruthyPrompt(s) == s /= <<>>

StripLeft(s) ==
    LET kept == {i \in 1..Len(s) : s[i] \notin Whitespace}
    IN  IF kept = {} THEN <<>>
        ELSE SubSeq(s, CHOOSE i \in kept : \A j \in kept : i <= j, Len(s))

StripRight(s) ==
    LET kept == {i \in 1..Len(s) : s[i] \notin Whitespace}
    IN  IF kept = {} THEN <<>>
        ELSE SubSeq(s, 1, CHOOSE i \in kept : \A j \in kept : i >= j)

(* str.strip(): the string without its leading and trailing whitespace. *)
Strip(s) == StripRight(StripLeft(s))

-----------------------------------------------------------------------------
(* The editor: parameter visibility and after_value_set *)

(* The nodes that define after_value_set. *)
EditNodes == {"image_generation", "video_generation"}

(* The parameters declared with ui_options "hide": True. *)
InitiallyHidden(n) ==
    CASE n = "image_generation" -> {"reference_image", "reference_weight"}
      [] n = "video_generation" -> {"aspect_ratio_ray16"}
      [] OTHER                  -> {}

(* The parameter whose value after_value_set looks at. *)
ControllingParameter(n) ==
    CASE n = "image_generation" -> "reference_type"
      [] n = "video_generation" -> "model"
      [] OTHER                  -> ""

(* The weight after_value_set writes for a reference type, in hundredths. *)
default_weight(value) ==
    CASE value = "image_reference" -> 85
      [] value = "style_reference" -> 80
      [] value = "modify_image"    -> 100

show_parameter_by_name(h, names) == h \ names

hide_parameter_by_name(h, names) == h \cup names

(* The result of a handler: the parameter values and the hidden parameters. *)
Edited(p, h) == [params |-> p, hidden |-> h]

after_value_set_character_keeps_weight(n, name, value, p, h) ==
    IF n = "image_generation" /\ name = "reference_type"
    THEN CASE value = "none" ->
                Edited(p, hide_parameter_by_name(h, {"reference_image", "reference_weight"}))
           [] value = "character_reference" ->
                Edited(p, show_parameter_by_name(h, {"reference_image"}))
           [] OTHER ->
                Edited([p EXCEPT !.options.reference_weight = default_weight(value)],
                       show_parameter_by_name(h, {"reference_image", "reference_weight"}))
    ELSE Edited(p, h)

after_value_set_keeps_weight(n, name, value, p, h) ==
    IF n = "image_generation" /\ name = "reference_type"
    THEN CASE value = "none" ->
                Edited(p, hide_parameter_by_name(h, {"reference_image", "reference_weight"}))
           [] value = "character_reference" ->
                Edited(p, hide_parameter_by_name(
                              show_parameter_by_name(h, {"reference_image"}),
                              {"reference_weight"}))
           [] OTHER ->
                Edited(p, show_parameter_by_name(h, {"reference_image", "reference_weight"}))
    ELSE Edited(p, h)

(* after_value_set(parameter, value) of the node class n, called with the
   values p (the new value already stored) and the hidden parameters h. *)
after_value_set(n, name, value, p, h) ==
    CASE n = "image_generation" /\ name = "reference_type" ->
            (CASE value = "none" ->
                    Edited(p, hide_parameter_by_name(h, {"reference_image",
                                                         "reference_weight"}))
               [] value = "character_reference" ->
                    Edited(p, hide_parameter_by_name(
                                  show_parameter_by_name(h, {"reference_image"}),
                                  {"reference_weight"}))
               [] value \in {"image_reference", "style_reference", "modify_image"} ->
                    Edited([p EXCEPT !.options.reference_weight = default_weight(value)],
                           show_parameter_by_name(h, {"reference_image",
                                                      "reference_weight"}))
               [] OTHER -> Edited(p, h))
      [] n = "video_generation" /\ name = "model" ->
            IF value = "ray-1-6"
            THEN Edited(p, hide_parameter_by_name(
                              show_parameter_by_name(
                                  hide_parameter_by_name(h, {"duration", "resolution"}),
                                  {"aspect_ratio_ray16"}),
                              {"aspect_ratio"}))
            ELSE Edited(p, hide_parameter_by_name(
                              show_parameter_by_name(h, {"duration", "resolution",
                                                         "aspect_ratio"}),
                              {"aspect_ratio_ray16"}))
      [] OTHER -> Edited(p, h)

(* The current value of the controlling parameter. *)
ControllingValue(n, p) ==
    CASE n = "image_generation" -> p.reference_type
      [] n = "video_generation" -> p.options.model
      [] OTHER                  -> ""

(* A node whose parameters have been set before the invocation: the editor
   is as the handler left it when the controlling parameter received its
   value; the sets themselves are not recorded. *)
Configured ==
    /\ edits = <<>>
    /\ hidden = after_value_set(node, ControllingParameter(node),
                                ControllingValue(node, params), params,
                                InitiallyHidden(node)).hidden

-----------------------------------------------------------------------------
(* Initial state: a freshly constructed node with its parameters set *)

NoValidation == [is_none |-> TRUE, errors |-> <<>>]

ApiKeys == {"", "luma-key"}

Prompts == {<<>>, <<"a">>}

(* Bound of the model: the longest prompt of the request-building
   specification. *)
MaxPromptLen == 2

RECURSIVE Strings(_)
Strings(n) ==
    IF n = 0 THEN {<<>>}
    ELSE Strings(n - 1) \cup {Append(s, c) : s \in {t \in Strings(n - 1) : Len(t) = n - 1},
                                            c \in Chars}

WidePrompts == Strings(MaxPromptLen)

Models(n) ==
    CASE n \in {"image_generation", "image_reframe"} -> {"photon-1", "photon-flash-1"}
      [] n = "video_generation"                      -> {"ray-2", "ray-flash-2", "ray-1-6"}
      [] n \in {"video_modify", "video_reframe"}     -> {"ray-2", "ray-flash-2"}
      [] OTHER                                       -> {""}

DefaultModel(n) ==
    CASE n \in {"image_generation", "image_reframe"} -> "photon-1"
      [] n \in {"video_generation", "video_modify", "video_reframe"} -> "ray-2"
      [] OTHER -> ""

AspectRatios == {"16:9", "21:9"}

AspectRatiosRay16 == {"16:9", "1:1"}

Resolutions == {"720p", "4k"}

Durations == {"5s", "9s"}

Modes == {"flex_1", "adhere_1"}

(* reference_weight, in hundredths *)
Weights == {0, 85}

GeometryFields == {"grid_position_x", "grid_position_y", "x_start", "x_end",
                   "y_start", "y_end", "resized_width", "resized_height"}

GeometryValues == {0, 10}

NoGeometry == [f \in GeometryFields |-> 0]

(* The parameters other than key, prompt and media, at their default values. *)
DefaultOptions(n) ==
    [model |-> DefaultModel(n), aspect_ratio |-> "16:9", aspect_ratio_ray16 |-> "16:9",
     resolution |-> "720p", duration |-> "5s", loop |-> FALSE, mode |-> "flex_1",
     reference_weight |-> 85, geometry |-> NoGeometry]

(* The values the parameters other than key, prompt and media may hold; a
   parameter a node does not have stays at the default. *)
OptionSpace(n) ==
    [model : Models(n),
     aspect_ratio : IF n \in {"video_modify"} \cup ListNodes THEN {"16:9"} ELSE AspectRatios,
     aspect_ratio_ray16 : IF n = "video_generation" THEN AspectRatiosRay16 ELSE {"16:9"},
     resolution : IF n = "video_generation" THEN Resolutions ELSE {"720p"},
     duration : IF n = "video_generation" THEN Durations ELSE {"5s"},
     loop : IF n = "video_generation" THEN BOOLEAN ELSE {FALSE},
     mode : IF n = "video_modify" THEN Modes ELSE {"flex_1"},
     reference_weight : IF n = "image_generation" THEN Weights ELSE {85},
     geometry : IF n \in {"image_reframe", "video_reframe"}
                THEN [GeometryFields -> GeometryValues] ELSE {NoGeometry}]

MediaValues(p) ==
    IF p = "reference_image" THEN RefValues ELSE {"None", "Public", "Local"}

MediaSpace(n) ==
    {m \in [MediaParams(n) -> RefValues] : \A p \in MediaParams(n) : m[p] \in MediaValues(p)}

ParamSpace(n) ==
    [api_key : ApiKeys,
     prompt : IF n \in ListNodes THEN {<<>>} ELSE Prompts,
     reference_type : IF n = "image_generation" THEN ReferenceTypes ELSE {"none"},
     media : MediaSpace(n),
     options : {DefaultOptions(n)}]

(* The same for the request-building specification: every prompt up to
   MaxPromptLen characters, every kind of reference URL, every option. *)
WideMediaValues(p) ==
    IF p = "reference_image" THEN WideRefValues ELSE {"None", "Public", "Local"}

WideMediaSpace(n) ==
    {m \in [MediaParams(n) -> WideRefValues] :
        \A p \in MediaParams(n) : m[p] \in WideMediaValues(p)}

WideParamSpace(n) ==
    [api_key : ApiKeys,
     prompt : WidePrompts,
     reference_type : IF n = "image_generation" THEN ReferenceTypes ELSE {"none"},
     media : WideMediaSpace(n),
     options : OptionSpace(n)]

(* No concurrent invocation is modelled. *)
NoFlows == <<>>

(* The variables of the invocation before validate_before_node_run. *)
Idle ==
    /\ pc = "idle"
    /\ validation = NoValidation
    /\ status = <<>>
    /\ output = PreviousOutput
    /\ storage = {}
    /\ tracked = [p \in PublicParamSet(node) |-> ""]
    /\ generation = NoGeneration
    /\ attempt = 0
    /\ completed = FALSE
    /\ urls = [p \in MediaParams(node) |-> ""]
    /\ outcomes = {}
    /\ seen = NothingSeen
    /\ calls = NoCalls
    /\ error = <<>>
    /\ requests = <<>>
    /\ response = ""

Init ==
    /\ node \in Nodes
    /\ params \in ParamSpace(node)
    /\ Idle
    /\ Configured
    /\ clock = 0
    /\ saved = <<>>
    /\ flows = NoFlows

-----------------------------------------------------------------------------
(* validate_before_node_run *)

(* The preconditions each node's validate_before_node_run checks, in the
   order it checks them. *)
CheckedPreconditions(n) ==
    CASE n \in {"image_generation", "video_generation"} -> <<"prompt", "api_key">>
      [] n \in {"image_reframe", "video_reframe"}       -> <<"input", "api_key">>
      [] n = "video_modify"                             -> <<"input", "prompt", "api_key">>
      [] OTHER                                          -> <<"api_key">>

(* "not value" for the parameter a precondition reads. *)
Violated(n, p, c) ==
    CASE c = "prompt"  -> ~TruthyPrompt(p.prompt)
      [] c = "api_key" -> ~Truthy(p.api_key)
      [] c = "input"   -> p.media[InputParam(n)] = "None"

RECURSIVE CollectErrors(_, _, _)
CollectErrors(n, p, checks) ==
    IF checks = <<>> THEN <<>>
    ELSE (IF Violated(n, p, Head(checks)) THEN <<Head(checks)>> ELSE <<>>)
         \o CollectErrors(n, p, Tail(checks))

RECURSIVE FirstError(_, _, _)
FirstError(n, p, checks) ==
    IF checks = <<>> THEN <<>>
    ELSE IF Violated(n, p, Head(checks)) THEN <<Head(checks)>>
    ELSE FirstError(n, p, Tail(checks))

validate_first_error_only(n, p) ==
    LET errors == FirstError(n, p, CheckedPreconditions(n))
    IN  [is_none |-> errors = <<>>, errors |-> errors]

(* "return errors if errors else None" *)
validate_before_node_run(n, p) ==
    LET errors == CollectErrors(n, p, CheckedPreconditions(n))
    IN  [is_none |-> errors = <<>>, errors |-> errors]

Validate ==
    /\ pc = "idle"
    /\ validation' = validate_before_node_run(node, params)
    /\ calls' = Count(calls, "secret")
    /\ pc' = "validated"
    /\ UNCHANGED <<static, editing, response, requests, node, params, status, output, storage, tracked, generation,
                   attempt, completed, urls, outcomes, seen, error>>

-----------------------------------------------------------------------------
(* _process_async: the try block up to the submit *)

(* Where control goes when the try block is left: the finally block of the
   nodes that have one, the end of _process_async otherwise. *)
AfterTry(n) == IF PublicParams(n) = <<>> THEN "done" ELSE "finally0"

RaiseRetriesTransport(e, log) ==
    /\ status' = Append(log, Line("failure", 0, e.msg))
    /\ error' = <<e>>
    /\ pc' = IF e = Exc("TransportError", "submit") THEN "submit"
             ELSE IF e = Exc("TransportError", "get") THEN "fetch"
             ELSE AfterTry(node)

RaiseWithoutMarker(e, log) ==
    /\ status' = log
    /\ error' = <<e>>
    /\ pc' = AfterTry(node)

(* "except Exception as e": append the failure marker to the lines the try
   block has appended so far, then re-raise e. *)
Raise(e, log) ==
    /\ status' = Append(log, Line("failure", 0, e.msg))
    /\ error' = <<e>>
    /\ pc' = AfterTry(node)

get_api_key_unchecked(p) == [key |-> p.api_key, raised |-> FALSE]

(* _get_api_key: the secret, or ValueError when it is empty. *)
get_api_key(p) == [key |-> p.api_key, raised |-> ~Truthy(p.api_key)]

(* The statements from the top of the try block to the first collaborator
   call other than the secrets store. *)
Begin ==
    /\ pc = "validated"
    /\ calls' = Count(calls, "secret")
    /\ IF get_api_key(params).raised
       THEN Raise(Exc("MissingCredential", "Luma API key not found"), status)
       ELSE IF node \in {"image_generation", "video_generation"} /\ ~TruthyPrompt(params.prompt)
       THEN Raise(Exc("MissingRequiredInput", "Prompt is required and cannot be empty"), status)
       ELSE /\ error' = error
            /\ CASE node = "image_generation" ->
                      /\ status' = Append(status, Line("creating", 0, ""))
                      /\ pc' = "resolve_ref"
                 [] node = "video_generation" ->
                      /\ status' = IF params.options.loop
                                   THEN Append(Append(status, Line("creating", 0, "")),
                                               Line("loop_enabled", 0, ""))
                                   ELSE Append(status, Line("creating", 0, ""))
                      /\ pc' = "resolve_frame0"
                 [] node \in InputNodes ->
                      /\ status' = status
                      /\ pc' = "resolve_input"
                 [] node \in ListNodes ->
                      /\ status' = Append(status, Line("fetching", 0, ""))
                      /\ pc' = "list"
    /\ UNCHANGED <<static, editing, response, requests, node, params, validation, output, storage, tracked, generation,
                   attempt, completed, urls, outcomes, seen>>

(* What a resolver call did: the URL it returned, the object it left in
   public storage, the calls it made, the exception it raised. *)
Resolved(url, object, uploads, fetches, raised) ==
    [url |-> url, object |-> object, uploads |-> uploads, fetches |-> fetches,
     raised |-> raised]

(* Bytes to public URL: save_static_file under luma_ref_<timestamp>.jpg; the
   call may fail. *)
UploadReference(fetches) ==
    {Resolved(RefObject, RefObject, 1, fetches, ""),
     Resolved("", "", 1, fetches, "StorageError")}

get_image_url_always_fetches(image) ==
    CASE image = "None"   -> {Resolved("", "", 0, 0, "")}
      [] image = "Public" -> {Resolved(PublicUrl, "", 0, 0, "")}
      [] OTHER ->
            UploadReference(1) \cup {Resolved("", "", 0, 1, "DownloadFailed")}

get_image_url_always_uploads(image) ==
    CASE image = "None" -> {Resolved("", "", 0, 0, "")}
      [] OTHER          -> UploadReference(0)

get_image_url_never_fetches(image) ==
    CASE image = "None"   -> {Resolved("", "", 0, 0, "")}
      [] image = "Inline" -> UploadReference(0)
      [] OTHER            -> {Resolved(ArtifactUrl(image), "", 0, 0, "")}

(* _get_image_url_for_api: the possible results for each kind of artifact.
   requests.get may fail (raise_for_status) and save_static_file may fail. *)
get_image_url_for_api(image) ==
    CASE ArtifactType(image) = "NoneType"      -> {Resolved("", "", 0, 0, "")}
      [] ArtifactType(image) = "ImageArtifact" -> UploadReference(0)
      [] ArtifactType(image) = "ImageUrlArtifact" ->
            IF ContainsLocalhost(ArtifactUrl(image))
            THEN UploadReference(1) \cup {Resolved("", "", 0, 1, "DownloadFailed")}
            ELSE {Resolved(ArtifactUrl(image), "", 0, 0, "")}
      [] OTHER -> {Resolved("", "", 0, 0, "")}

(* PublicArtifactUrlParameter.get_public_url_for_parameter, the host's
   component: a public URL is returned as it is, anything else is uploaded to
   cloud storage and the upload is remembered for delete_uploaded_artifact;
   for an empty parameter it returns nothing or raises. *)
get_public_url_for_parameter(value, p) ==
    CASE value = "None"   -> {Resolved("", "", 0, 0, ""),
                              Resolved("", "", 0, 0, "ReferenceUnavailable")}
      [] value = "Public" -> {Resolved(PublicUrl, "", 0, 0, "")}
      [] OTHER            -> {Resolved(CloudObject(p), CloudObject(p), 1, 0, ""),
                              Resolved("", "", 1, 0, "StorageError")}

(* The effect of a resolver call on the collaborators. *)
ResolverEffect(r) ==
    /\ storage' = IF r.object = "" THEN storage ELSE storage \cup {r.object}
    /\ calls' = [calls EXCEPT !.upload = @ + r.uploads, !.fetch = @ + r.fetches]

reference_requested_ignores_type(p) == p.media["reference_image"] /= "None"

(* image generation: "reference_type != 'none' and reference_image" *)
reference_requested(p) ==
    p.reference_type /= "none" /\ p.media["reference_image"] /= "None"

(* image generation: "if reference_type != 'none' and reference_image" *)
ResolveReference ==
    /\ pc = "resolve_ref"
    /\ IF reference_requested(params)
       THEN \E r \in get_image_url_for_api(params.media["reference_image"]) :
              /\ ResolverEffect(r)
              /\ IF r.raised /= ""
                 THEN Raise(Exc(r.raised, "reference image"), status)
                 ELSE /\ status' = IF Truthy(r.url)
                                   THEN Append(status, Line("using_reference", 0, r.url))
                                   ELSE status
                      /\ pc' = "submit"
                      /\ error' = error
              /\ urls' = [urls EXCEPT !["reference_image"] = r.url]
       ELSE /\ pc' = "submit"
            /\ UNCHANGED <<status, error, storage, calls, urls>>
    /\ UNCHANGED <<static, editing, response, requests, node, params, validation, output, tracked, generation,
                   attempt, completed, outcomes, seen>>

(* reframe: the geometry parameters that are not 0, each with its value. *)
advanced_params_all_fields(p) == p.options.geometry

advanced_params(p) ==
    [f \in {g \in GeometryFields : p.options.geometry[g] /= 0} |-> p.options.geometry[f]]

InputChecksAcceptsEmptyUrl(n, p, url) ==
    IF n = "video_modify" /\ ~TruthyPrompt(p.prompt) THEN "Prompt is required"
    ELSE ""

(* The checks that follow the resolution of the required input: an empty URL,
   and in video modify an empty prompt.  "" when none raises. *)
InputChecks(n, p, url) ==
    IF ~Truthy(url) THEN "Input is required"
    ELSE IF n = "video_modify" /\ ~TruthyPrompt(p.prompt) THEN "Prompt is required"
    ELSE ""

(* reframe / modify: resolve the required input, then the checks and the
   lines up to the next collaborator call. *)
ResolveInput ==
    /\ pc = "resolve_input"
    /\ \E r \in get_public_url_for_parameter(params.media[InputParam(node)], InputParam(node)) :
         /\ ResolverEffect(r)
         /\ tracked' = [tracked EXCEPT ![InputParam(node)] =
                            IF r.object = "" THEN @ ELSE r.object]
         /\ urls' = [urls EXCEPT ![InputParam(node)] = r.url]
         /\ IF r.raised /= ""
            THEN Raise(Exc(r.raised, "input"), status)
            ELSE IF InputChecks(node, params, r.url) /= ""
            THEN Raise(Exc("MissingRequiredInput", InputChecks(node, params, r.url)), status)
            ELSE /\ error' = error
                 /\ pc' = IF node = "video_modify" THEN "resolve_frame0" ELSE "submit"
                 /\ status' =
                      LET using == Append(Append(status, Line("using_input", 0, r.url)),
                                          Line("creating", 0, ""))
                          prompted == IF TruthyPrompt(params.prompt)
                                      THEN Append(using, Line("using_prompt", 0,
                                                              Strip(params.prompt)))
                                      ELSE using
                      IN  IF node = "video_modify"
                          THEN Append(prompted, Line("using_mode", 0, params.options.mode))
                          ELSE IF DOMAIN advanced_params(params) /= {}
                          THEN Append(prompted, Line("using_advanced", 0, ""))
                          ELSE prompted
    /\ UNCHANGED <<static, editing, response, requests, node, params, validation, output, generation, attempt,
                   completed, outcomes, seen>>

(* video generation / video modify: an optional frame is resolved only when
   the parameter holds something. *)
ResolveFrame(at, p, next) ==
    /\ pc = at
    /\ IF params.media[p] /= "None"
       THEN \E r \in get_public_url_for_parameter(params.media[p], p) :
              /\ ResolverEffect(r)
              /\ tracked' = [tracked EXCEPT ![p] = IF r.object = "" THEN @ ELSE r.object]
              /\ urls' = [urls EXCEPT ![p] = r.url]
              /\ IF r.raised /= ""
                 THEN Raise(Exc(r.raised, p), status)
                 ELSE /\ status' = IF Truthy(r.url)
                                   THEN Append(status, Line("using_frame", 0, r.url))
                                   ELSE status
                      /\ pc' = next
                      /\ error' = error
       ELSE /\ pc' = next
            /\ UNCHANGED <<status, error, storage, calls, tracked, urls>>
    /\ UNCHANGED <<static, editing, response, requests, node, params, validation, output, generation, attempt,
                   completed, outcomes, seen>>

ResolveFrame0 ==
    ResolveFrame("resolve_frame0", Frame0Param(node),
                 IF node = "video_generation" THEN "resolve_frame1" ELSE "submit")

ResolveFrame1 == ResolveFrame("resolve_frame1", Frame1Param(node), "submit")

-----------------------------------------------------------------------------
(* _process_async: the request parameters ("params") of each node *)

(* A dict with no key. *)
NoKeys == [k \in {} |-> k]

(* "d[key] = value" when the condition holds *)
KeyIf(cond, entry) == IF cond THEN entry ELSE NoKeys

reference_entry_weighted_character(reference_type, url, weight) ==
    CASE reference_type = "image_reference" ->
            [image_ref |-> <<[url |-> url, weight |-> weight]>>]
      [] reference_type = "style_reference" ->
            [style_ref |-> <<[url |-> url, weight |-> weight]>>]
      [] reference_type = "character_reference" ->
            [character_ref |-> [identity0 |-> [images |-> <<url>>, weight |-> weight]]]
      [] reference_type = "modify_image" ->
            [modify_image_ref |-> [url |-> url, weight |-> weight]]
      [] OTHER -> NoKeys

(* image generation: the key a reference type adds and its shape *)
reference_entry(reference_type, url, weight) ==
    CASE reference_type = "image_reference" ->
            [image_ref |-> <<[url |-> url, weight |-> weight]>>]
      [] reference_type = "style_reference" ->
            [style_ref |-> <<[url |-> url, weight |-> weight]>>]
      [] reference_type = "character_reference" ->
            [character_ref |-> [identity0 |-> [images |-> <<url>>]]]
      [] reference_type = "modify_image" ->
            [modify_image_ref |-> [url |-> url, weight |-> weight]]
      [] OTHER -> NoKeys

image_generation_params(p, u) ==
    [prompt |-> Strip(p.prompt), model |-> p.options.model,
     aspect_ratio |-> p.options.aspect_ratio]
    @@ KeyIf(reference_requested(p) /\ Truthy(u["reference_image"]),
             reference_entry(p.reference_type, u["reference_image"],
                             p.options.reference_weight))

(* image reframe / video reframe *)
reframe_params(n, p, u) ==
    [media |-> [url |-> u[InputParam(n)]], model |-> p.options.model,
     aspect_ratio |-> p.options.aspect_ratio,
     generation_type |-> IF n = "image_reframe" THEN "reframe_image" ELSE "reframe_video"]
    @@ KeyIf(TruthyPrompt(p.prompt), [prompt |-> Strip(p.prompt)])
    @@ advanced_params(p)

(* video generation: "if model == 'ray-1-6'" selects the aspect-ratio
   parameter that is read *)
selected_aspect_ratio(o) ==
    IF o.model = "ray-1-6" THEN o.aspect_ratio_ray16 ELSE o.aspect_ratio

ray2_keys_for_every_model(o) == [resolution |-> o.resolution, duration |-> o.duration]

(* video generation: "if model in ['ray-2', 'ray-flash-2']" *)
ray2_keys(o) ==
    KeyIf(o.model \in {"ray-2", "ray-flash-2"},
          [resolution |-> o.resolution, duration |-> o.duration])

keyframes(u) ==
    KeyIf(Truthy(u["start_frame"]),
          [frame0 |-> [type |-> "image", url |-> u["start_frame"]]])
    @@ KeyIf(Truthy(u["end_frame"]),
             [frame1 |-> [type |-> "image", url |-> u["end_frame"]]])

video_generation_params(p, u) ==
    [prompt |-> Strip(p.prompt), model |-> p.options.model]
    @@ KeyIf(Truthy(selected_aspect_ratio(p.options)),
             [aspect_ratio |-> selected_aspect_ratio(p.options)])
    @@ ray2_keys(p.options)
    @@ KeyIf(p.options.loop, [loop |-> TRUE])
    @@ KeyIf(DOMAIN keyframes(u) /= {}, [keyframes |-> keyframes(u)])

video_modify_params(p, u) ==
    [media |-> [url |-> u["input_video"]], model |-> p.options.model,
     mode |-> p.options.mode, generation_type |-> "modify_video",
     prompt |-> Strip(p.prompt)]
    @@ KeyIf(Truthy(u["first_frame"]), [first_frame |-> [url |-> u["first_frame"]]])

(* The keyword arguments of the create / reframe / modify call. *)
request_params(n, p, u) ==
    CASE n = "image_generation" -> image_generation_params(p, u)
      [] n = "video_generation" -> video_generation_params(p, u)
      [] n = "video_modify"     -> video_modify_params(p, u)
      [] OTHER                  -> reframe_params(n, p, u)

-----------------------------------------------------------------------------
(* _process_async: submit and the polling loop *)

LoopNextOffByOne(c, a) ==
    IF ~c /\ a < max_attempts(node) - 1 THEN "sleep" ELSE "after_loop"

LoopNextIgnoresCompleted(c, a) ==
    IF a < max_attempts(node) THEN "sleep" ELSE "after_loop"

LoopNextWithoutSleep(c, a) ==
    IF ~c /\ a < max_attempts(node) THEN "fetch" ELSE "after_loop"

(* "while not completed and attempt < max_attempts" *)
LoopNext(c, a) ==
    IF ~c /\ a < max_attempts(node) THEN "sleep" ELSE "after_loop"

(* The create / reframe / modify call, then the two lines and the loop's
   initialisation.  The call may raise (transport error). *)
Submit ==
    /\ pc = "submit"
    /\ calls' = Count(calls, "submit")
    /\ requests' = Append(requests, request_params(node, params, urls))
    /\ \/ /\ generation' = [NoGeneration EXCEPT !.id = "gen-1"]
          /\ status' = Append(Append(status, Line("request_created", 0, "gen-1")),
                              Line("waiting", 0, ""))
          /\ completed' = FALSE
          /\ attempt' = 0
          /\ pc' = LoopNext(FALSE, 0)
          /\ error' = error
       \/ /\ Raise(Exc("TransportError", "submit"), status)
          /\ UNCHANGED <<generation, completed, attempt>>
    /\ UNCHANGED <<static, editing, response, node, params, validation, output, storage, tracked, urls,
                   outcomes, seen>>

NextAttemptSkips(a) == a + 2

NextAttemptStuck(a) == a

(* "attempt += 1" *)
NextAttempt(a) == a + 1

(* Bound of the model: the sleeps of one invocation that are followed; above
   every max_attempts. *)
MaxSleeps == 250

(* "await asyncio.sleep(...); attempt += 1" *)
Sleep ==
    /\ pc = "sleep"
    /\ calls.sleep < MaxSleeps
    /\ calls' = Count(calls, "sleep")
    /\ attempt' = NextAttempt(attempt)
    /\ pc' = "fetch"
    /\ UNCHANGED <<static, editing, response, requests, node, params, validation, status, output, storage, tracked,
                   generation, completed, urls, outcomes, seen, error>>

(* The remote states a status fetch may observe: the job is "queued" for at
   most its first MaxQueued polls and never returns to it, and a terminal
   state is final. *)
Observable ==
    IF seen.first_terminal /= "" THEN {seen.first_terminal}
    ELSE {"dreaming", "completed", "failed"}
           \cup (IF calls.poll < MaxQueued /\ seen.states \subseteq {"queued"}
                 THEN {"queued"} ELSE {})

FetchBranchFailedContinues(s) ==
    CASE s = "completed" -> "completed"
      [] OTHER           -> "other"

(* "if state == 'completed' ... elif state == 'failed' ... else ..." *)
FetchBranch(s) ==
    CASE s = "completed" -> "completed"
      [] s = "failed"    -> "failed"
      [] OTHER           -> "other"

(* "generation = await client.generations.get(id=...)" and the branch on its
   state.  The call may raise (transport error). *)
Fetch ==
    /\ pc = "fetch"
    /\ calls' = Count(calls, "poll")
    /\ \/ \E s \in Observable, reason \in FailureReasons :
            /\ s /= "failed" => reason = CHOOSE r \in FailureReasons : TRUE
            /\ generation' = [generation EXCEPT
                                !.state = s,
                                !.failure_reason = IF s = "failed" THEN reason ELSE "",
                                !.asset = IF s = "completed" THEN AssetUrl ELSE ""]
            /\ seen' = Observe(seen, s)
            /\ CASE FetchBranch(s) = "completed" ->
                      /\ completed' = TRUE
                      /\ outcomes' = outcomes \cup {"Completed"}
                      /\ status' = Append(status, Line("attempt_completed", attempt, ""))
                      /\ pc' = LoopNext(TRUE, attempt)
                      /\ error' = error
                 [] FetchBranch(s) = "failed" ->
                      /\ outcomes' = outcomes \cup {"Failed"}
                      /\ Raise(Exc("GenerationFailed", generation'.failure_reason), status)
                      /\ completed' = completed
                 [] OTHER ->
                      /\ status' = Append(status, Line("attempt", attempt, s))
                      /\ pc' = LoopNext(completed, attempt)
                      /\ UNCHANGED <<completed, outcomes, error>>
       \/ /\ Raise(Exc("TransportError", "get"), status)
          /\ UNCHANGED <<generation, completed, outcomes, seen>>
    /\ UNCHANGED <<static, editing, response, requests, node, params, validation, output, storage, tracked, attempt, urls>>

(* "if not completed: raise TimeoutError", else the line before the download *)
AfterLoop ==
    /\ pc = "after_loop"
    /\ IF ~completed
       THEN /\ outcomes' = outcomes \cup {"TimedOut"}
            /\ Raise(Exc("GenerationTimedOut", "timed out"), status)
       ELSE /\ status' = Append(status, Line("downloading", 0, generation.asset))
            /\ pc' = "download"
            /\ UNCHANGED <<outcomes, error>>
    /\ UNCHANGED <<static, editing, response, requests, node, params, validation, output, storage, tracked, generation,
                   attempt, completed, urls, seen, calls>>

-----------------------------------------------------------------------------
(* _process_async: download, save, publish, cleanup *)

(* _download_image / _download_video: the bytes, or an exception. *)
Download ==
    /\ pc = "download"
    /\ \/ /\ calls' = Count(Count(calls, "download"), "downloaded")
          /\ pc' = "save"
          /\ UNCHANGED <<status, error>>
       \/ /\ calls' = Count(calls, "download")
          /\ Raise(Exc("DownloadFailed", "Failed to download"), status)
    /\ UNCHANGED <<static, editing, response, requests, node, params, validation, output, storage, tracked, generation,
                   attempt, completed, urls, outcomes, seen>>

(* StaticFilesManager().save_static_file(bytes, filename): the static URL, or
   an exception. *)
Save ==
    /\ pc = "save"
    /\ calls' = Count(calls, "save")
    /\ \/ /\ storage' = storage \cup {ResultObject}
          /\ pc' = "publish"
          /\ UNCHANGED <<status, error>>
       \/ /\ Raise(Exc("StorageError", "save_static_file"), status)
          /\ storage' = storage
    /\ UNCHANGED <<static, editing, response, requests, node, params, validation, output, tracked, generation,
                   attempt, completed, urls, outcomes, seen>>

(* "parameter_output_values[...] = artifact", publish_update_to_parameter and
   the success line: the end of the try block. *)
Publish ==
    /\ pc = "publish"
    /\ output' = ResultObject
    /\ calls' = Count(calls, "publish")
    /\ status' = Append(status, Line("success", 0, generation.asset))
    /\ pc' = AfterTry(node)
    /\ UNCHANGED <<static, editing, response, requests, node, params, validation, storage, tracked, generation,
                   attempt, completed, urls, outcomes, seen, error>>

(* finally: delete_uploaded_artifact of the i-th public-URL parameter.  It
   deletes what the parameter uploaded, if anything; the delete may raise, and
   an exception raised in the finally block replaces the pending one (which
   stays in its context) and skips the rest of the block. *)
Cleanup(at, i) ==
    /\ pc = at
    /\ Len(PublicParams(node)) >= i
    /\ calls' = Count(calls, "delete")
    /\ LET p == PublicParams(node)[i]
           next == IF Len(PublicParams(node)) > i THEN "finally1" ELSE "done"
       IN  IF tracked[p] = ""
           THEN /\ pc' = next
                /\ UNCHANGED <<storage, tracked, error>>
           ELSE \/ /\ storage' = storage \ {tracked[p]}
                   /\ tracked' = [tracked EXCEPT ![p] = ""]
                   /\ pc' = next
                   /\ error' = error
                \/ /\ error' = <<Exc("CleanupError", p)>> \o error
                   /\ pc' = "done"
                   /\ UNCHANGED <<storage, tracked>>
    /\ UNCHANGED <<static, editing, response, requests, node, params, validation, status, output, generation,
                   attempt, completed, urls, outcomes, seen>>

Cleanup0 == Cleanup("finally0", 1)

Cleanup1 == Cleanup("finally1", 2)

-----------------------------------------------------------------------------
(* The list nodes *)

(* What response.json() / the SDK call may return: null, an empty array, an
   array with items. *)
ResponseBodies == {"null", "empty", "items"}

ToListKeepsNull(body) ==
    CASE body = "items" -> "[items]"
      [] body = "empty" -> "[]"
      [] OTHER          -> "None"

(* "list(x) if x else []" *)
ToList(body) == IF body = "items" THEN "[items]" ELSE "[]"

(* The single remote call of a list node, then the output and the success
   line; or the failure marker of the except clause that matches. *)
ListFetch ==
    /\ pc = "list"
    /\ calls' = Count(calls, "list")
    /\ \/ \E body \in ResponseBodies :
            /\ response' = body
            /\ output' = ToList(body)
            /\ status' = Append(status, Line("success", 0, ToList(body)))
            /\ pc' = "done"
            /\ error' = error
       \/ /\ node = "list_camera_motions"
          /\ Raise(Exc("HTTPStatusError", "HTTP error"), status)
          /\ UNCHANGED <<output, response>>
       \/ /\ Raise(Exc("TransportError", "Failed to fetch"), status)
          /\ UNCHANGED <<output, response>>
    /\ UNCHANGED <<static, editing, requests, node, params, validation, storage, tracked,
                   generation, attempt, completed, urls, outcomes, seen>>

-----------------------------------------------------------------------------

Next ==
    \/ Validate
    \/ Begin
    \/ ResolveReference
    \/ ResolveInput
    \/ ResolveFrame0
    \/ ResolveFrame1
    \/ Submit
    \/ Sleep
    \/ Fetch
    \/ AfterLoop
    \/ Download
    \/ Save
    \/ Publish
    \/ Cleanup0
    \/ Cleanup1
    \/ ListFetch

Spec == Init /\ [][Next]_vars

(* The same with the scheduling of loop.run_until_complete: the coroutine is
   resumed whenever the call it awaits returns, so a step that can be taken
   is taken. *)
FairSpec == Spec /\ WF_vars(Next)

-----------------------------------------------------------------------------
(* Request building: the run of a generation node from validation to the
   submit call, over every prompt, reference and option. *)

RequestInit ==
    /\ node \in GenNodes
    /\ params \in WideParamSpace(node)
    /\ Idle
    /\ Configured
    /\ clock = 0
    /\ saved = <<>>
    /\ flows = NoFlows

RequestNext ==
    \/ Validate
    \/ Begin
    \/ ResolveReference
    \/ ResolveInput
    \/ ResolveFrame0
    \/ ResolveFrame1
    \/ Submit

RequestSpec == RequestInit /\ [][RequestNext]_vars

-----------------------------------------------------------------------------
(* Static files: the save_static_file calls of two invocations that run
   concurrently, with the clock their file names are derived from. *)

Flows == {1, 2}

(* Bound of the model: the last millisecond of the clock. *)
MaxClock == 2

(* f"{prefix}_{timestamp}.{ext}" *)
Filename(prefix, timestamp, ext) ==
    [prefix |-> prefix, timestamp |-> timestamp, ext |-> ext]

(* f"luma_ref_{timestamp}.jpg" *)
ReferenceFilename(timestamp) == Filename("luma_ref", timestamp, "jpg")

(* The file name each node gives to the asset it downloaded. *)
ResultFilename(n, timestamp) ==
    CASE n = "image_generation" -> Filename("luma_photon", timestamp, "jpg")
      [] n = "image_reframe"    -> Filename("luma_reframe", timestamp, "jpg")
      [] n = "video_generation" -> Filename("luma_ray2", timestamp, "mp4")
      [] n = "video_modify"     -> Filename("luma_modify", timestamp, "mp4")
      [] n = "video_reframe"    -> Filename("luma_reframe", timestamp, "mp4")

(* The third argument of save_static_file. *)
SavePolicy(n) ==
    IF n \in {"image_reframe", "video_generation"} THEN "CREATE_NEW" ELSE "default"

(* The files written so far. *)
Written == {saved[i].file : i \in 1..Len(saved)}

(* StaticFilesManager().save_static_file, the host's component: the file it
   writes.  A name not in use is written as it is; for a name in use
   CREATE_NEW writes a new copy, and without a policy the host either
   overwrites the file or writes a new copy. *)
save_static_file(name, policy) ==
    LET copies == {f.copy : f \in {g \in Written : g.name = name}}
        fresh == [name |-> name, copy |-> Cardinality(copies)]
        first == [name |-> name, copy |-> 0]
    IN  IF copies = {} THEN {first}
        ELSE IF policy = "CREATE_NEW" THEN {fresh}
        ELSE {first, fresh}

FlowSpace ==
    {f \in [node : GenNodes, reference : RefValues, pc : {"reference"}] :
        f.node /= "image_generation" => f.reference = "None"}

(* The parameters of a node whose optional parameters are left alone. *)
DefaultParams(n) ==
    [api_key |-> "luma-key", prompt |-> <<"a">>, reference_type |-> "none",
     media |-> [p \in MediaParams(n) |-> "None"], options |-> DefaultOptions(n)]

StaticInit ==
    /\ node = "image_generation"
    /\ params = DefaultParams(node)
    /\ Idle
    /\ Configured
    /\ clock = 0
    /\ saved = <<>>
    /\ flows \in [Flows -> FlowSpace]

(* The variables of the single invocation. *)
flow_vars == <<node, params, pc, validation, status, output, storage, tracked,
               generation, attempt, completed, urls, outcomes, seen, calls, error,
               requests, response>>

(* A millisecond passes. *)
Tick ==
    /\ clock < MaxClock
    /\ clock' = clock + 1
    /\ UNCHANGED <<saved, flows, flow_vars, editing>>

(* The reference of invocation i, when it holds one: _get_image_url_for_api
   with "timestamp = int(time.time() * 1000)", the file name and the
   save_static_file call for a reference that needs an upload. *)
FlowResolve(i) ==
    /\ flows[i].pc = "reference"
    /\ IF flows[i].reference = "None"
       THEN /\ flows' = [flows EXCEPT ![i].pc = "result"]
            /\ saved' = saved
       ELSE \E r \in get_image_url_for_api(flows[i].reference) :
              IF r.raised /= ""
              THEN /\ flows' = [flows EXCEPT ![i].pc = "done"]
                   /\ saved' = saved
              ELSE /\ flows' = [flows EXCEPT ![i].pc = "result"]
                   /\ IF r.uploads = 0
                      THEN saved' = saved
                      ELSE \E f \in save_static_file(ReferenceFilename(clock), "default") :
                             saved' = Append(saved, [flow |-> i,
                                                     requested |-> ReferenceFilename(clock),
                                                     file |-> f])
    /\ UNCHANGED <<clock, flow_vars, editing>>

(* The save of the downloaded asset in invocation i. *)
FlowSave(i) ==
    /\ flows[i].pc = "result"
    /\ LET name == ResultFilename(flows[i].node, clock)
       IN  \E f \in save_static_file(name, SavePolicy(flows[i].node)) :
             saved' = Append(saved, [flow |-> i, requested |-> name, file |-> f])
    /\ flows' = [flows EXCEPT ![i].pc = "done"]
    /\ UNCHANGED <<clock, flow_vars, editing>>

StaticNext ==
    \/ Tick
    \/ \E i \in Flows : FlowResolve(i)
    \/ \E i \in Flows : FlowSave(i)

StaticSpec == StaticInit /\ [][StaticNext]_vars

-----------------------------------------------------------------------------
(* The editor: setting parameter values on a node *)

(* Bound of the model: the number of values set on a node. *)
MaxEdits == 3

(* The parameters the editor can set on a node. *)
Settable(n) ==
    CASE n = "image_generation" ->
            {"prompt", "model", "aspect_ratio", "reference_type", "reference_image",
             "reference_weight"}
      [] n = "video_generation" ->
            {"prompt", "model", "aspect_ratio", "aspect_ratio_ray16", "resolution",
             "duration", "loop", "start_frame", "end_frame"}
      [] OTHER -> {}

(* The values a parameter is given. *)
EditValues(n, name) ==
    CASE name = "prompt"             -> Prompts
      [] name = "model"              -> Models(n)
      [] name = "aspect_ratio"       -> AspectRatios
      [] name = "aspect_ratio_ray16" -> AspectRatiosRay16
      [] name = "resolution"         -> Resolutions
      [] name = "duration"           -> Durations
      [] name = "loop"               -> BOOLEAN
      [] name = "reference_type"     -> ReferenceTypes
      [] name = "reference_weight"   -> Weights
      [] OTHER                       -> MediaValues(name)

(* The parameter values with one of them replaced. *)
set_parameter_value(p, name, value) ==
    CASE name = "prompt"         -> [p EXCEPT !.prompt = value]
      [] name = "reference_type" -> [p EXCEPT !.reference_type = value]
      [] name \in DOMAIN p.media -> [p EXCEPT !.media[name] = value]
      [] OTHER                   -> [p EXCEPT !.options[name] = value]

(* A value set on a node. *)
Edit(name, value) == [name |-> name, value |-> value]

(* The editor sets a parameter: the value is stored, then after_value_set is
   called with the parameter and the value. *)
SetValue ==
    /\ pc = "idle"
    /\ Len(edits) < MaxEdits
    /\ \E name \in Settable(node) :
         \E value \in EditValues(node, name) :
            LET r == after_value_set(node, name, value,
                                     set_parameter_value(params, name, value), hidden)
            IN  /\ params' = r.params
                /\ hidden' = r.hidden
                /\ edits' = Append(edits, Edit(name, value))
    /\ UNCHANGED <<static, response, requests, node, pc, validation, status, output,
                   storage, tracked, generation, attempt, completed, urls, outcomes,
                   seen, calls, error>>

(* The parameter values of a node right after construction. *)
ConstructedParams(n) ==
    [api_key |-> "luma-key", prompt |-> <<>>, reference_type |-> "none",
     media |-> [p \in MediaParams(n) |-> "None"], options |-> DefaultOptions(n)]

EditInit ==
    /\ node \in EditNodes
    /\ params = ConstructedParams(node)
    /\ Idle
    /\ hidden = InitiallyHidden(node)
    /\ edits = <<>>
    /\ clock = 0
    /\ saved = <<>>
    /\ flows = NoFlows

EditNext == SetValue

EditSpec == EditInit /\ [][EditNext]_vars

-----------------------------------------------------------------------------
(* Properties *)

(* The polling loop has been entered and left. *)
PollingOver == calls.poll > 0 /\ pc \notin {"sleep", "fetch", "after_loop"}

Raised(kind) == \E i \in 1..Len(error) : error[i].kind = kind

(* An exception was raised inside the try block (the oldest of the chain). *)
TryRaised == error /= <<>> /\ error[Len(error)].kind /= "CleanupError"

(* C1: in every generation node the polling code takes the Completed branch
   iff some status fetch observed "completed", the Failed branch iff a fetch
   observed "failed" with no "completed" before it, and the TimedOut branch
   iff max_attempts consecutive fetches observed non-terminal states; never
   two of them, and exactly one once the loop is left without a transport
   error. *)
C1_PollerOutcome ==
    node \in GenNodes =>
        /\ "Completed" \in outcomes <=> "completed" \in seen.states
        /\ "Failed" \in outcomes <=> seen.first_terminal = "failed"
        /\ pc \notin {"sleep", "fetch", "after_loop"} =>
              ("TimedOut" \in outcomes <=> seen.longest >= max_attempts(node))
        /\ Cardinality(outcomes) <= 1
        /\ PollingOver /\ ~Raised("TransportError") => Cardinality(outcomes) = 1

C1_Witness ==
    /\ node = "video_generation"
    /\ pc = "done"
    /\ outcomes = {"TimedOut"}
    /\ seen.longest = max_attempts(node)

(* C2: when an invocation has finished, no request-scoped reference it
   uploaded is left in public storage (only the primary output may remain). *)
C2_ScopedCleanup == pc = "done" => storage \subseteq {ResultObject}

(* The output parameter is written only after a fetch observed "completed",
   the asset was downloaded and the bytes were saved. *)
PublishedOnlyAfterCompletion ==
    node \in GenNodes /\ output /= PreviousOutput =>
        /\ output = ResultObject
        /\ "completed" \in seen.states
        /\ calls.downloaded >= 1
        /\ ResultObject \in storage

(* An error raised inside the try block leaves the output parameter
   unchanged. *)
FlowErrorKeepsOutput == node \in GenNodes /\ TryRaised => output = PreviousOutput

(* C3: the output parameter is written only after a fetch observed
   "completed", the asset was downloaded and the bytes were saved; and every
   invocation that ends with an error ends with the output parameter
   unchanged. *)
C3_NoPartialSuccess ==
    node \in GenNodes =>
        /\ PublishedOnlyAfterCompletion
        /\ pc = "done" /\ error /= <<>> => output = PreviousOutput

(* The attempt budgets the specification gives for each endpoint. *)
StatedBudget(n) ==
    CASE n \in {"image_generation", "image_reframe"} -> 120
      [] n = "video_generation"                      -> 200
      [] n \in {"video_modify", "video_reframe"}     -> 180

C4_Budget ==
    node \in GenNodes =>
        /\ calls.poll <= StatedBudget(node)
        /\ "TimedOut" \in outcomes =>
              /\ calls.poll = StatedBudget(node)
              /\ seen.run = StatedBudget(node)
              /\ seen.first_terminal = ""
        /\ calls.poll = StatedBudget(node) /\ "completed" \in seen.states =>
              /\ outcomes = {"Completed"}
              /\ ~Raised("GenerationTimedOut")

C4_NoFetchAfterTerminal == seen.first_terminal /= "" => calls'.poll = calls.poll

(* C4: the number of status fetches never exceeds the endpoint's budget (120
   image generation and image reframe, 200 video generation, 180 video modify
   and video reframe); no fetch follows a fetch that observed "completed" or
   "failed"; the timeout is raised only after exactly max_attempts fetches
   that all observed non-terminal states; "completed" observed by fetch
   number max_attempts yields Completed, not TimedOut. *)
C4_AttemptBudget == [](C4_Budget) /\ [][C4_NoFetchAfterTerminal]_vars

C4_Witness ==
    /\ node = "image_reframe"
    /\ pc = "done"
    /\ calls.poll = 120
    /\ outcomes = {"Completed"}
    /\ output = ResultObject

(* C5: once a status fetch has observed "failed", the invocation is failing
   with an error that carries the job's failure_reason (the raised exception,
   or the one in its context when a cleanup call raised after it), and no
   download, no static-file save and no output publish is made. *)
C5_RemoteFailure ==
    seen.first_terminal = "failed" =>
        /\ generation.failure_reason \in FailureReasons
        /\ \E i \in 1..Len(error) :
              error[i] = Exc("GenerationFailed", generation.failure_reason)
        /\ pc \in {"finally0", "finally1", "done"}
        /\ calls.download = 0 /\ calls.save = 0 /\ calls.publish = 0
        /\ output = PreviousOutput

C5_Witness ==
    /\ seen.first_terminal = "failed"
    /\ generation.failure_reason = "content moderated"
    /\ attempt > 1
    /\ pc = "done"

FailureMarkers == {i \in 1..Len(status) : status[i].kind = "failure"}

(* C6: an invocation that ends with an error has appended exactly one
   failure-marker line, as its last line, and the error the marker reports is
   the one raised to the host (or in its chain); an invocation that ends
   without error has appended none. *)
C6_FailureMarker ==
    pc = "done" =>
        IF error /= <<>>
        THEN /\ Cardinality(FailureMarkers) = 1
             /\ status /= <<>>
             /\ status[Len(status)].kind = "failure"
             /\ \E i \in 1..Len(error) : error[i].msg = status[Len(status)].arg
        ELSE FailureMarkers = {}

(* The preconditions of a node that are violated by the parameter values. *)
EmptyPrecondition(c) ==
    CASE c = "prompt"  -> params.prompt = <<>>
      [] c = "api_key" -> params.api_key = ""
      [] c = "input"   -> params.media[InputParam(node)] = "None"

(* C7: validate_before_node_run uploads nothing and calls no remote API, and
   returns one error for each checked precondition that is violated, all of
   them together; it returns None iff none is violated.  Video modify with
   empty input video, empty prompt and empty key returns three errors. *)
C7_ValidationCollectsAll ==
    pc /= "idle" =>
        LET checks == CheckedPreconditions(node)
            bad == {i \in 1..Len(checks) : EmptyPrecondition(checks[i])}
        IN  /\ Len(validation.errors) = Cardinality(bad)
            /\ \A i \in bad : \E j \in 1..Len(validation.errors) :
                                 validation.errors[j] = checks[i]
            /\ validation.is_none <=> bad = {}
            /\ pc = "validated" =>
                  /\ storage = {}
                  /\ calls = [NoCalls EXCEPT !.secret = 1]
            /\ (/\ node = "video_modify"
                /\ params.prompt = <<>>
                /\ params.api_key = ""
                /\ params.media["input_video"] = "None") =>
                  Len(validation.errors) = 3

C7_Witness ==
    /\ node = "video_modify"
    /\ pc = "validated"
    /\ Len(validation.errors) = 3
    /\ ~validation.is_none

(* C8: with an empty API key the invocation of any of the seven nodes fails
   without any reference upload, HTTP fetch, submit, status poll or list
   call, and leaves the output parameter unchanged. *)
C8_MissingKey ==
    params.api_key = "" =>
        /\ calls.upload = 0 /\ calls.fetch = 0 /\ calls.submit = 0
        /\ calls.poll = 0 /\ calls.list = 0 /\ calls.download = 0
        /\ storage = {}
        /\ output = PreviousOutput
        /\ pc \in {"idle", "validated", "finally0", "finally1", "done"}
        /\ pc = "done" => Raised("MissingCredential")

C8_Witness ==
    /\ params.api_key = ""
    /\ node = "list_camera_motions"
    /\ pc = "done"
    /\ Raised("MissingCredential")

(* A required input of the run flow is empty. *)
RequiredInputEmpty ==
    \/ node \in PromptNodes /\ params.prompt = <<>>
    \/ node \in InputNodes /\ params.media[InputParam(node)] = "None"

(* C9: when a required input of a generation node is empty, the run flow
   makes no upload to public storage and no remote API call. *)
C9_FailFast ==
    RequiredInputEmpty =>
        /\ calls.upload = 0
        /\ calls.submit = 0
        /\ calls.poll = 0
        /\ storage = {}

(* The image-generation resolver has been called on the reference image. *)
ReferenceResolverCalled ==
    /\ node = "image_generation"
    /\ params.api_key /= "" /\ params.prompt /= <<>>
    /\ params.reference_type /= "none"
    /\ pc \notin {"idle", "validated", "resolve_ref"}

(* C10: for an inline-bytes reference image the image-generation resolver
   makes exactly one upload to static storage and no HTTP fetch, and the URL
   it returns is the URL of the uploaded object. *)
C10_InlineBytesSingleUpload ==
    ReferenceResolverCalled /\ params.media["reference_image"] = "Inline" =>
        /\ calls.upload = 1
        /\ calls.fetch = 0
        /\ ~Raised("StorageError") =>
              /\ urls["reference_image"] = RefObject
              /\ RefObject \in storage

C10_Witness ==
    /\ ReferenceResolverCalled
    /\ params.media["reference_image"] = "Inline"
    /\ pc = "submit"
    /\ urls["reference_image"] = RefObject

-----------------------------------------------------------------------------
(* Properties of the reference resolver *)

(* URL artifacts whose URL contains neither "localhost" nor "127.0.0.1". *)
PublicReferences ==
    {image \in WideRefValues : /\ ArtifactType(image) = "ImageUrlArtifact"
                               /\ ~ContainsLocalhost(ArtifactUrl(image))}

(* URL artifacts whose URL contains "localhost" or "127.0.0.1". *)
LocalReferences ==
    {image \in WideRefValues : /\ ArtifactType(image) = "ImageUrlArtifact"
                               /\ ContainsLocalhost(ArtifactUrl(image))}

(* C11: for a URL reference whose URL contains neither "localhost" nor
   "127.0.0.1" the image-generation resolver returns the input URL unchanged
   and makes no upload and no fetch; every call on such a URL has this one
   result, so a second call returns the same URL and leaves storage as it
   is. *)
C11_PublicUrlUnchanged ==
    /\ \A image \in PublicReferences :
          get_image_url_for_api(image) = {Resolved(ArtifactUrl(image), "", 0, 0, "")}
    /\ ReferenceResolverCalled /\ params.media["reference_image"] \in PublicReferences =>
          /\ urls["reference_image"] = ArtifactUrl(params.media["reference_image"])
          /\ calls.upload = 0
          /\ calls.fetch = 0
          /\ storage = {}
          /\ ~Raised("DownloadFailed") /\ ~Raised("StorageError")

C11_Witness ==
    /\ ReferenceResolverCalled
    /\ params.media["reference_image"] = "Public"
    /\ params.reference_type = "style_reference"
    /\ requests /= <<>>
    /\ requests[1].style_ref[1].url = PublicUrl
    /\ storage = {}

(* C12: for a URL reference whose URL contains "localhost" or "127.0.0.1"
   the image-generation resolver makes exactly one HTTP fetch and, when the
   fetch succeeds, exactly one upload whose URL it returns; when the fetch
   fails the resolver fails, nothing is uploaded and no request is
   submitted. *)
C12_LocalUrlFetchedAndUploaded ==
    ReferenceResolverCalled /\ params.media["reference_image"] \in LocalReferences =>
        /\ calls.fetch = 1
        /\ calls.upload <= 1
        /\ ~Raised("DownloadFailed") => calls.upload = 1
        /\ ~Raised("DownloadFailed") /\ ~Raised("StorageError") =>
              /\ urls["reference_image"] = RefObject
              /\ RefObject \in storage
        /\ Raised("DownloadFailed") \/ Raised("StorageError") =>
              /\ storage = {}
              /\ calls.submit = 0
              /\ requests = <<>>
              /\ pc = "done"
        /\ Raised("DownloadFailed") => calls.upload = 0

C12_Witness ==
    /\ ReferenceResolverCalled
    /\ params.media["reference_image"] = "Loopback"
    /\ Raised("DownloadFailed")
    /\ calls.fetch = 1
    /\ calls.upload = 0
    /\ pc = "done"

(* The required input of a reframe / modify node is empty and the resolver
   has been called on it. *)
EmptyInputResolved ==
    /\ node \in InputNodes
    /\ params.media[InputParam(node)] = "None"
    /\ params.api_key /= ""
    /\ pc \notin {"idle", "validated", "resolve_input"}

(* The reference image of image generation is empty although a reference
   type is selected, and the reference step is over. *)
EmptyReferenceSkipped ==
    /\ ReferenceResolverCalled
    /\ params.media["reference_image"] = "None"

ReferenceKeys == {"image_ref", "style_ref", "character_ref", "modify_image_ref"}

(* C13 as stated: whenever the reference to resolve is empty the resolution
   fails with ReferenceUnavailable; it never ends normally. *)
C13_EmptyInputFails ==
    EmptyReferenceSkipped \/ EmptyInputResolved => Raised("ReferenceUnavailable")

(* C13, amended: for an empty input the image-generation resolver returns no
   URL, normally, without upload or fetch, and the run flow then submits
   without any reference key; for an empty required input of reframe /
   modify the invocation fails before any upload or submit, with the
   resolver's error or with the caller's "... is required" error when the
   resolver returned nothing. *)
C13_EmptyInput ==
    /\ get_image_url_for_api("None") = {Resolved("", "", 0, 0, "")}
    /\ EmptyReferenceSkipped =>
          /\ urls["reference_image"] = ""
          /\ calls.upload = 0 /\ calls.fetch = 0
          /\ ~Raised("ReferenceUnavailable")
          /\ requests /= <<>> => DOMAIN requests[1] \cap ReferenceKeys = {}
    /\ EmptyInputResolved =>
          /\ Raised("MissingRequiredInput") \/ Raised("ReferenceUnavailable")
          /\ urls[InputParam(node)] = ""
          /\ calls.upload = 0
          /\ calls.submit = 0
          /\ requests = <<>>
          /\ pc \in {"finally0", "finally1", "done"}

C13_Witness ==
    /\ EmptyInputResolved
    /\ node = "image_reframe"
    /\ error = <<Exc("MissingRequiredInput", "Input is required")>>
    /\ status[Len(status)] = Line("failure", 0, "Input is required")

-----------------------------------------------------------------------------
(* Properties of the static files *)

(* C14: any two save_static_file calls made by node invocations (reference
   uploads of the image-generation resolver and saves of the downloaded
   asset), also by two invocations that run concurrently and within the same
   clock millisecond, use distinct file names, and none writes the file
   another has written. *)
C14_DistinctFilenames ==
    \A i, j \in 1..Len(saved) :
        i /= j => /\ saved[i].requested /= saved[j].requested
                  /\ saved[i].file /= saved[j].file

-----------------------------------------------------------------------------
(* Properties of the submit and of the request parameters *)

(* The error raised inside the try block, if any. *)
FirstRaised == IF error = <<>> THEN Exc("", "") ELSE error[Len(error)]

C15_SingleSubmit ==
    node \in GenNodes =>
        /\ calls.submit <= 1
        /\ Len(requests) = calls.submit
        /\ Raised("TransportError") =>
              /\ pc \in {"finally0", "finally1", "done"}
              /\ FirstRaised.kind = "TransportError"
              /\ status[Len(status)].kind = "failure"
        /\ FirstRaised = Exc("TransportError", "submit") => calls.poll = 0

C15_NothingAfterTransportError ==
    node \in GenNodes /\ Raised("TransportError") =>
        /\ calls'.submit = calls.submit
        /\ calls'.poll = calls.poll
        /\ calls'.sleep = calls.sleep
        /\ calls'.download = calls.download
        /\ output' = output

(* C15: a generation node makes the submit call at most once per
   invocation, and once the submit call or a status fetch has raised a
   transport error the invocation is in its exit path with that error: no
   further submit, sleep, status fetch or download is made. *)
C15_NoRetry == [](C15_SingleSubmit) /\ [][C15_NothingAfterTransportError]_vars

C15_Witness ==
    /\ node = "video_modify"
    /\ FirstRaised = Exc("TransportError", "get")
    /\ calls.poll = 3
    /\ calls.submit = 1
    /\ pc = "done"

(* The request of a node of the given classes has been passed to the remote
   call. *)
Submitted(nodes) == node \in nodes /\ requests /= <<>>

(* C16: in the request of image reframe and of video reframe each of the
   eight geometry keys is present iff the parameter is not 0, and a key that
   is present holds the parameter's value; with all eight at 0 the request
   has no geometry key. *)
C16_GeometryKeys ==
    Submitted({"image_reframe", "video_reframe"}) =>
        /\ \A f \in GeometryFields :
              /\ f \in DOMAIN requests[1] <=> params.options.geometry[f] /= 0
              /\ f \in DOMAIN requests[1] => requests[1][f] = params.options.geometry[f]
        /\ params.options.geometry = NoGeometry =>
              DOMAIN requests[1] \cap GeometryFields = {}

C16_Witness ==
    /\ Submitted({"video_reframe"})
    /\ params.options.geometry = [NoGeometry EXCEPT !["x_start"] = 10]
    /\ DOMAIN requests[1] \cap GeometryFields = {"x_start"}
    /\ requests[1]["x_start"] = 10

(* C17: the request of image generation holds at most one of the keys
   image_ref, style_ref, character_ref, modify_image_ref: none when the
   reference type is "none", there is no reference image or the resolver
   returned no URL for it, otherwise the key of the reference type, with image_ref / style_ref a one-element list of
   {url, weight}, modify_image_ref a flat {url, weight}, and character_ref
   {identity0: {images: [url]}} without any weight key; url is the resolved
   reference URL and weight the reference_weight parameter. *)
C17_ReferenceShape ==
    Submitted({"image_generation"}) =>
        LET d == requests[1]
            present == DOMAIN d \cap ReferenceKeys
            url == urls["reference_image"]
            weighted == [url |-> url, weight |-> params.options.reference_weight]
        IN  /\ Cardinality(present) <= 1
            /\ present /= {} <=> /\ params.reference_type /= "none"
                                  /\ params.media["reference_image"] /= "None"
                                  /\ url /= ""
            /\ "image_ref" \in present =>
                  /\ params.reference_type = "image_reference"
                  /\ d.image_ref = <<weighted>>
            /\ "style_ref" \in present =>
                  /\ params.reference_type = "style_reference"
                  /\ d.style_ref = <<weighted>>
            /\ "modify_image_ref" \in present =>
                  /\ params.reference_type = "modify_image"
                  /\ d.modify_image_ref = weighted
            /\ "character_ref" \in present =>
                  /\ params.reference_type = "character_reference"
                  /\ DOMAIN d.character_ref = {"identity0"}
                  /\ DOMAIN d.character_ref.identity0 = {"images"}
                  /\ d.character_ref.identity0.images = <<url>>

C17_Witness ==
    /\ Submitted({"image_generation"})
    /\ params.reference_type = "character_reference"
    /\ params.media["reference_image"] = "Inline"
    /\ requests[1].character_ref.identity0.images = <<RefObject>>

(* A keyframe of the video-generation request. *)
HasKeyframe(d, frame) ==
    "keyframes" \in DOMAIN d /\ frame \in DOMAIN d.keyframes

(* C18: in the request of video generation aspect_ratio is the value of
   aspect_ratio_ray16 when model is "ray-1-6" and of aspect_ratio otherwise;
   resolution and duration are present, with the parameters' values, iff
   model is "ray-2" or "ray-flash-2"; loop is present iff the loop parameter
   is true; keyframe frame0 (frame1) is present iff a start (end) frame was
   given, and holds its resolved URL. *)
C18_VideoGenerationKeys ==
    Submitted({"video_generation"}) =>
        LET d == requests[1]
            o == params.options
        IN  /\ "aspect_ratio" \in DOMAIN d
            /\ d.aspect_ratio = IF o.model = "ray-1-6" THEN o.aspect_ratio_ray16
                                 ELSE o.aspect_ratio
            /\ "resolution" \in DOMAIN d <=> o.model \in {"ray-2", "ray-flash-2"}
            /\ "duration" \in DOMAIN d <=> o.model \in {"ray-2", "ray-flash-2"}
            /\ "resolution" \in DOMAIN d => d.resolution = o.resolution
            /\ "duration" \in DOMAIN d => d.duration = o.duration
            /\ "loop" \in DOMAIN d <=> o.loop
            /\ HasKeyframe(d, "frame0") <=> params.media["start_frame"] /= "None"
            /\ HasKeyframe(d, "frame1") <=> params.media["end_frame"] /= "None"
            /\ HasKeyframe(d, "frame0") =>
                  d.keyframes.frame0 = [type |-> "image", url |-> urls["start_frame"]]
            /\ HasKeyframe(d, "frame1") =>
                  d.keyframes.frame1 = [type |-> "image", url |-> urls["end_frame"]]

C18_Witness ==
    /\ Submitted({"video_generation"})
    /\ params.options.model = "ray-1-6"
    /\ params.options.resolution = "4k"
    /\ params.options.aspect_ratio = "21:9"
    /\ requests[1].aspect_ratio = "1:1"
    /\ DOMAIN requests[1] = {"prompt", "model", "aspect_ratio", "keyframes"}
    /\ DOMAIN requests[1].keyframes = {"frame1"}

(* C19: in the request of image reframe and of video reframe media.url is
   the resolved input URL, aspect_ratio is present with the parameter's
   value, and a prompt key, when present, holds a non-empty string. *)
C19_ReframeRequest ==
    Submitted({"image_reframe", "video_reframe"}) =>
        /\ requests[1].media = [url |-> urls[InputParam(node)]]
        /\ urls[InputParam(node)] /= ""
        /\ "aspect_ratio" \in DOMAIN requests[1]
        /\ requests[1].aspect_ratio = params.options.aspect_ratio
        /\ "prompt" \in DOMAIN requests[1] => requests[1].prompt /= <<>>

(* t is s without its leading and trailing whitespace. *)
IsTrimOf(t, s) ==
    /\ t /= <<>> => t[1] \notin Whitespace /\ t[Len(t)] \notin Whitespace
    /\ \E i \in 0..Len(s) :
          /\ i + Len(t) <= Len(s)
          /\ \A k \in 1..Len(s) :
                IF k > i /\ k <= i + Len(t) THEN s[k] = t[k - i]
                ELSE s[k] \in Whitespace

(* C20: every request that image generation, video generation or video
   modify passes to the remote call holds a prompt that is the prompt
   parameter without its surrounding whitespace and that is not empty; an
   empty or all-whitespace prompt parameter never leads to a submit. *)
C20_PromptTrimmed ==
    Submitted(PromptNodes) =>
        /\ "prompt" \in DOMAIN requests[1]
        /\ IsTrimOf(requests[1].prompt, params.prompt)
        /\ requests[1].prompt /= <<>>
        /\ \E k \in 1..Len(params.prompt) : params.prompt[k] \notin Whitespace

-----------------------------------------------------------------------------
(* Properties of the status log *)

Bit(b) == IF b THEN 1 ELSE 0

(* The try block has been left. *)
Exited == pc \in {"finally0", "finally1", "done"}

(* A run that reached the polling phase and has left the try block. *)
PolledRun == node \in GenNodes /\ calls.poll > 0 /\ Exited

(* The boundary messages the progress log is said to hold besides the
   attempt lines: request-created, waiting, terminal. *)
BoundaryMessages == {"request_created", "waiting", "terminal"}

(* C22 (as stated): in every run of a generation node that reaches the
   polling phase the number of lines appended to the status log is the
   number of poll attempts made plus the fixed boundary messages
   (request-created, waiting, terminal), whatever the parameter values and
   whether the run ended Completed, Failed or TimedOut. *)
C22_FixedBoundary ==
    PolledRun => Len(status) = calls.poll + Cardinality(BoundaryMessages)

(* The lines a node appends before the submit call. *)
LinesBeforeSubmit ==
    CASE node = "image_generation" -> 1 + Bit(urls["reference_image"] /= "")
      [] node = "video_generation" ->
            1 + Bit(params.options.loop) + Bit(urls["start_frame"] /= "")
              + Bit(urls["end_frame"] /= "")
      [] node = "video_modify"     -> 4 + Bit(urls["first_frame"] /= "")
      [] OTHER ->
            2 + Bit(params.prompt /= <<>>) + Bit(params.options.geometry /= NoGeometry)

(* The lines that follow the last poll: the downloading line and then the
   success line or a failure marker after "completed", the failure marker
   after a timeout; after "failed" or a transport error the failure marker
   stands where that poll's attempt line would. *)
LinesAfterPolling ==
    IF "Completed" \in outcomes THEN 2
    ELSE IF "TimedOut" \in outcomes THEN 1
    ELSE 0

(* C22 (amended): in every run of a generation node that reaches the
   polling phase the number of lines appended to the status log is the
   number of poll attempts made, plus the lines the node appends before the
   submit (which depend on the node and on which optional parameters are
   set), plus request-created and waiting, plus the lines the outcome adds:
   2 after Completed, 1 after TimedOut, 0 after Failed or a transport
   error. *)
C22_LogLength ==
    PolledRun => Len(status) = calls.poll + LinesBeforeSubmit + 2 + LinesAfterPolling

C22_Witness ==
    /\ PolledRun
    /\ node = "image_reframe"
    /\ params.prompt /= <<>>
    /\ outcomes = {"TimedOut"}
    /\ Len(status) = calls.poll + 6

-----------------------------------------------------------------------------
(* Properties of the list nodes *)

(* The invocation of a list node has ended. *)
ListDone == node \in ListNodes /\ pc = "done"

(* C23: a list node (camera motions, concepts) makes one remote call per
   invocation, never a second one, and no submit, sleep or status fetch; an
   invocation whose call raised (transport, auth, HTTP status) ends with
   that error and the output parameter as it was; an invocation whose call
   returned ends with a list as output, the empty list when the response
   was null or empty.  (An invocation that finds no API key fails before
   the call and makes none.) *)
C23_ListLookup ==
    node \in ListNodes =>
        /\ calls.list <= 1
        /\ calls.submit = 0 /\ calls.sleep = 0 /\ calls.poll = 0
        /\ calls.download = 0 /\ calls.save = 0
        /\ ListDone => (calls.list = 1 \/ FirstRaised.kind = "MissingCredential")
        /\ ListDone /\ error /= <<>> =>
              /\ output = PreviousOutput
              /\ status[Len(status)].kind = "failure"
        /\ ListDone /\ error = <<>> =>
              /\ calls.list = 1
              /\ output \in {"[]", "[items]"}
              /\ response \in {"null", "empty"} => output = "[]"
              /\ response = "items" => output = "[items]"

C23_Witness ==
    /\ node = "list_concepts"
    /\ ListDone
    /\ error = <<>>
    /\ response = "null"
    /\ output = "[]"

-----------------------------------------------------------------------------
(* Properties of the order of events *)

(* What holds of the calls made so far, in every state of a generation
   node's invocation. *)
C24_Phases ==
    /\ calls.submit <= 1
    /\ calls.submit = 0 =>
          calls.sleep = 0 /\ calls.poll = 0 /\ calls.download = 0
    /\ calls.sleep = calls.poll + Bit(pc = "fetch")
    /\ calls.download <= 1 /\ calls.save <= 1 /\ calls.publish <= 1
    /\ calls.download > 0 =>
          /\ calls.poll > 0
          /\ generation.state = "completed"
          /\ seen.first_terminal = "completed"
    /\ calls.save > 0 => calls.downloaded = 1
    /\ calls.publish > 0 => calls.save = 1 /\ ResultObject \in storage

(* What holds of every step of a generation node's invocation. *)
C24_Steps ==
    /\ calls.submit > 0 =>
          /\ urls' = urls
          /\ calls'.upload = calls.upload
          /\ calls'.fetch = calls.fetch
    /\ calls'.sleep /= calls.sleep => calls.sleep = calls.poll /\ calls.download = 0
    /\ calls'.poll /= calls.poll =>
          /\ pc = "fetch"
          /\ calls.sleep = calls.poll + 1
          /\ calls.download = 0
    /\ calls'.download /= calls.download =>
          /\ generation.asset = AssetUrl
          /\ generation' = generation
          /\ status[Len(status)] = Line("downloading", 0, generation.asset)
          /\ calls.save = 0 /\ calls.publish = 0
    /\ calls'.save /= calls.save => calls.publish = 0
    /\ calls'.publish /= calls.publish => output' = ResultObject

(* C24: in every invocation of a generation node the reference resolutions
   come first, then the single submit, then the polling, where every status
   fetch directly follows one sleep, then the download of the asset URL of
   the job the completing poll returned, then the save to static storage,
   then the output; nothing of a later phase happens before something of an
   earlier one. *)
C24_EventOrder ==
    /\ [](node \in GenNodes => C24_Phases)
    /\ [][(node \in GenNodes) => C24_Steps]_vars

C24_Witness ==
    /\ node = "video_generation"
    /\ pc = "done"
    /\ error = <<>>
    /\ calls.upload = 2
    /\ calls.submit = 1
    /\ calls.sleep = 3 /\ calls.poll = 3
    /\ calls.download = 1 /\ calls.save = 1 /\ calls.publish = 1
    /\ output = ResultObject

-----------------------------------------------------------------------------
(* Properties of the attempt lines *)

IsAttemptLine(l) == l.kind \in {"attempt", "attempt_completed"}

IsProgressLine(l) == l.kind = "attempt"

(* The lines "Attempt n: ..." of the log, in order. *)
AttemptLines == SelectSeq(status, IsAttemptLine)

(* The status fetches started: those that returned or raised, and the one
   in flight. *)
FetchesStarted == calls.poll + Bit(pc = "fetch")

(* Holds of every state: the numbers of the attempt lines are 1, 2, ..., k,
   there is one line "Attempt n: <state>" for each poll that observed a
   non-terminal state, and the counter is within the budget and counts the
   fetches started. *)
C25_Numbered ==
    /\ LET lines == AttemptLines
       IN  /\ \A i \in 1..Len(lines) : lines[i].n = i
           /\ Len(lines) <= calls.poll
    /\ Len(SelectSeq(status, IsProgressLine)) = seen.longest
    /\ attempt >= 0 /\ attempt <= max_attempts(node)
    /\ attempt = FetchesStarted

(* Holds of every step: the log only grows at its end, and a status fetch
   that observes a non-terminal state appends the one line that reports the
   poll's 1-based index and the state as the remote returned it. *)
C25_Appends ==
    /\ Len(status') >= Len(status)
    /\ SubSeq(status', 1, Len(status)) = status
    /\ seen' /= seen /\ generation'.state \in NonTerminal =>
          status' = Append(status, Line("attempt", calls'.poll, generation'.state))

(* C25: the status log is append-only; in every invocation of a generation
   node each poll that observes a non-terminal state appends exactly one
   line "Attempt n: <raw state>" with n the 1-based index of the poll; the
   attempt numbers in the log are 1, 2, ..., k without gap or repeat; the
   attempt counter stays within 0..max_attempts and equals the number of
   status fetches started. *)
C25_AttemptLines ==
    /\ [](node \in GenNodes => C25_Numbered)
    /\ [][(node \in GenNodes) => C25_Appends]_vars

C25_Witness ==
    /\ node = "video_reframe"
    /\ pc = "done"
    /\ Len(AttemptLines) = 3
    /\ AttemptLines[1] = Line("attempt", 1, "queued")
    /\ AttemptLines[2] = Line("attempt", 2, "dreaming")
    /\ AttemptLines[3] = Line("attempt_completed", 3, "")
    /\ attempt = 3

-----------------------------------------------------------------------------
(* Termination *)

(* C26: every invocation of a generation node eventually ends (Completed,
   Failed, TimedOut or with an error), whatever states the remote reports,
   also when the job stays non-terminal for ever, provided every remote
   call, sleep and download returns; the attempt budget bounds the wait. *)
C26_Terminates == (node \in GenNodes) => <>(pc = "done")

C26_Witness ==
    /\ node = "video_modify"
    /\ pc = "done"
    /\ outcomes = {"TimedOut"}
    /\ seen.states \subseteq NonTerminal
    /\ attempt = max_attempts(node)
    /\ calls.poll = max_attempts(node)

-----------------------------------------------------------------------------
(* Properties of the editor *)

(* The value set by the step, when the step sets one. *)
LastEdit == edits'[Len(edits')]

(* The edit e set the parameter to the value (values of different
   parameters are of different kinds: the name is compared first). *)
IsEdit(e, name, value) == e.name = name /\ e.value = value

Shown(name) == name \notin hidden

(* The visibility of the dependent parameters as the controlling value
   decides it. *)
C27_Visibility ==
    /\ node = "image_generation" =>
          /\ params.reference_type = "none" =>
                ~Shown("reference_image") /\ ~Shown("reference_weight")
          /\ params.reference_type = "character_reference" =>
                Shown("reference_image") /\ ~Shown("reference_weight")
          /\ params.reference_type \in {"image_reference", "style_reference",
                                        "modify_image"} =>
                Shown("reference_image") /\ Shown("reference_weight")
    /\ node = "video_generation" =>
          /\ params.options.model = "ray-1-6" =>
                /\ ~Shown("duration") /\ ~Shown("resolution") /\ ~Shown("aspect_ratio")
                /\ Shown("aspect_ratio_ray16")
          /\ params.options.model /= "ray-1-6" =>
                /\ Shown("duration") /\ Shown("resolution") /\ Shown("aspect_ratio")
                /\ ~Shown("aspect_ratio_ray16")

(* Setting a parameter other than the controlling one changes no
   visibility. *)
C27_OthersKeep ==
    edits' /= edits /\ LastEdit.name /= ControllingParameter(node) => hidden' = hidden

(* C27: after any sequence of value changes that starts at the constructed
   node, which dependent parameters are shown depends on the current
   controlling value alone.  Image generation: reference_type "none" hides
   reference_image and reference_weight, "character_reference" shows
   reference_image and hides reference_weight, the other three show both.
   Video generation: model "ray-1-6" hides duration, resolution and
   aspect_ratio and shows aspect_ratio_ray16, any other model does the
   opposite.  A change of any other parameter changes no visibility. *)
C27_VisibilityByValue ==
    /\ [](C27_Visibility)
    /\ [][C27_OthersKeep]_vars

C27_Witness ==
    /\ node = "image_generation"
    /\ Len(edits) = 3
    /\ IsEdit(edits[1], "reference_type", "image_reference")
    /\ IsEdit(edits[2], "reference_type", "character_reference")
    /\ edits[3].name = "reference_weight"
    /\ hidden = {"reference_weight"}

(* C28: in image generation, setting reference_type to "image_reference",
   "style_reference" or "modify_image" overwrites reference_weight with
   0.85, 0.8 or 1.0 (whatever it was); setting reference_type to "none" or
   "character_reference", or setting a parameter other than reference_type
   (and than reference_weight itself), leaves reference_weight as it was.
   Weights are in hundredths. *)
C28_ReferenceWeight ==
    [][node = "image_generation" /\ edits' /= edits =>
          LET weight == params.options.reference_weight
              after == params'.options.reference_weight
          IN  /\ IsEdit(LastEdit, "reference_type", "image_reference") => after = 85
              /\ IsEdit(LastEdit, "reference_type", "style_reference") => after = 80
              /\ IsEdit(LastEdit, "reference_type", "modify_image") => after = 100
              /\ IsEdit(LastEdit, "reference_type", "none") => after = weight
              /\ IsEdit(LastEdit, "reference_type", "character_reference") =>
                    after = weight
              /\ LastEdit.name \notin {"reference_type", "reference_weight"} =>
                    after = weight]_vars

C28_Witness ==
    /\ node = "image_generation"
    /\ Len(edits) = 3
    /\ IsEdit(edits[1], "reference_weight", 0)
    /\ IsEdit(edits[2], "reference_type", "style_reference")
    /\ IsEdit(edits[3], "reference_type", "character_reference")
    /\ params.options.reference_weight = 80

-----------------------------------------------------------------------------
(* Properties of the reference of image generation *)

(* Image generation is past its reference step, which it reached with a
   key and a prompt. *)
ReferenceStepOver ==
    /\ node = "image_generation"
    /\ params.api_key /= "" /\ params.prompt /= <<>>
    /\ pc \notin {"idle", "validated", "resolve_ref"}

(* A reference type is selected and the reference image is empty or is a
   value the resolver has no URL for. *)
NoReferenceUrl ==
    /\ params.reference_type /= "none"
    /\ params.media["reference_image"] \in {"None", "Other"}

NoReferenceInRequest ==
    /\ urls["reference_image"] = ""
    /\ calls.upload = 0 /\ calls.fetch = 0
    /\ requests /= <<>> => DOMAIN requests[1] \cap ReferenceKeys = {}

(* Holds of every state of image generation. *)
C29_NoReference ==
    /\ node = "image_generation" /\ params.reference_type = "none" =>
          NoReferenceInRequest
    /\ ReferenceStepOver /\ NoReferenceUrl =>
          /\ NoReferenceInRequest
          /\ pc = "submit" => error = <<>>
          /\ error /= <<>> => /\ FirstRaised = Exc("TransportError", "submit")
                              /\ calls.submit = 1

(* Holds of every step of image generation: with no reference to add the
   reference step goes on to the submit, and the submit makes the call. *)
C29_StillSubmitted ==
    node = "image_generation"
    /\ (params.reference_type = "none" \/ NoReferenceUrl) =>
          /\ pc = "resolve_ref" => pc' = "submit" /\ error' = <<>>
          /\ pc = "submit" => calls'.submit = 1 /\ Len(requests') = 1

(* C29: in image generation with reference_type "none" the resolver is
   never invoked (no upload, no fetch) and the request has no reference key,
   also when a reference image is set; with another reference_type and a
   reference image that is empty or resolves to no URL the request is still
   submitted, without reference key and without an error. *)
C29_ReferenceNone ==
    /\ [](C29_NoReference)
    /\ [][C29_StillSubmitted]_vars

C29_Witness ==
    /\ node = "image_generation"
    /\ params.reference_type = "none"
    /\ params.media["reference_image"] = "Local"
    /\ requests /= <<>>
    /\ DOMAIN requests[1] = {"prompt", "model", "aspect_ratio"}
    /\ error = <<>>

C29_UnresolvedWitness ==
    /\ node = "image_generation"
    /\ params.reference_type = "style_reference"
    /\ params.media["reference_image"] = "Other"
    /\ calls.submit = 1
    /\ DOMAIN requests[1] = {"prompt", "model", "aspect_ratio"}
    /\ error = <<>>

-----------------------------------------------------------------------------
(* Properties of the cleanup *)

(* C30: in the nodes that hold public-URL parameters (image reframe, video
   generation, video modify, video reframe) delete_uploaded_artifact is
   called exactly once per invocation for every public-URL parameter of the
   node, on every exit path and after the failure marker, if any, has been
   appended; in video generation and video modify the second parameter's
   cleanup is called also when the first parameter's cleanup fails. *)
C30_CleanupEveryParameter ==
    node \in GenNodes /\ PublicParams(node) /= <<>> =>
        /\ calls.delete <= Len(PublicParams(node))
        /\ calls.delete > 0 =>
              /\ Exited
              /\ TryRaised => \E i \in 1..Len(status) : status[i].kind = "failure"
        /\ pc = "done" => calls.delete = Len(PublicParams(node))

====
